---- MODULE Spec2Model ----
(***************************************************************************)
(* Model of the BMP280 driver (src/bmp280.py): chip initialisation and     *)
(* calibration capture, the power-mode state machine, the sampling         *)
(* protocol against the bus, and the fixed-point compensation formulae.    *)
(***************************************************************************)
EXTENDS Integers, Sequences, FiniteSets, TLC

(***************************************************************************)
(* Python integers are unbounded, TLC's are 32 bits wide.  The             *)
(* compensation formulae (1 << 47, products of three 16-bit factors, ...)  *)
(* leave that range, so they are evaluated on sign-magnitude numbers with  *)
(* limbs in base 2^15, least significant limb first.  Zero is              *)
(* [neg |-> FALSE, mag |-> <<>>]; a magnitude has no leading zero limb.    *)
(***************************************************************************)
LimbBits == 15
Base == 2^LimbBits

Limb(m, i) == IF i <= Len(m) THEN m[i] ELSE 0

RECURSIVE MNorm(_)
MNorm(m) ==
    IF m = <<>> THEN <<>>
    ELSE IF m[Len(m)] = 0 THEN MNorm(SubSeq(m, 1, Len(m) - 1))
    ELSE m

\* -1, 0, 1 as |a| <, =, > |b|, comparing from limb i downwards
RECURSIVE MCmpAt(_, _, _)
MCmpAt(a, b, i) ==
    IF i = 0 THEN 0
    ELSE IF Limb(a, i) < Limb(b, i) THEN -1
    ELSE IF Limb(a, i) > Limb(b, i) THEN 1
    ELSE MCmpAt(a, b, i - 1)

MCmp(a, b) == MCmpAt(a, b, IF Len(a) > Len(b) THEN Len(a) ELSE Len(b))

RECURSIVE MAddAt(_, _, _, _)
MAddAt(a, b, i, c) ==
    IF i > Len(a) /\ i > Len(b)
    THEN (IF c = 0 THEN <<>> ELSE <<c>>)
    ELSE LET s == Limb(a, i) + Limb(b, i) + c
         IN  <<s % Base>> \o MAddAt(a, b, i + 1, s \div Base)

MAdd(a, b) == MAddAt(a, b, 1, 0)

\* |a| - |b| for |a| >= |b|
RECURSIVE MSubAt(_, _, _, _)
MSubAt(a, b, i, br) ==
    IF i > Len(a) THEN <<>>
    ELSE LET d == a[i] - Limb(b, i) - br
         IN  IF d < 0 THEN <<d + Base>> \o MSubAt(a, b, i + 1, 1)
             ELSE <<d>> \o MSubAt(a, b, i + 1, 0)

MSub(a, b) == MNorm(MSubAt(a, b, 1, 0))

\* |a| * k for 0 <= k < Base
RECURSIVE MMulSmallAt(_, _, _, _)
MMulSmallAt(a, k, i, c) ==
    IF i > Len(a) THEN (IF c = 0 THEN <<>> ELSE <<c>>)
    ELSE LET p == a[i] * k + c
         IN  <<p % Base>> \o MMulSmallAt(a, k, i + 1, p \div Base)

MMulSmall(a, k) == MNorm(MMulSmallAt(a, k, 1, 0))

Zeros(n) == [i \in 1..n |-> 0]

MShiftLimbs(a, n) == IF a = <<>> THEN <<>> ELSE Zeros(n) \o a

RECURSIVE MMulAt(_, _, _)
MMulAt(a, b, i) ==
    IF i > Len(b) THEN <<>>
    ELSE MAdd(MShiftLimbs(MMulSmall(a, b[i]), i - 1), MMulAt(a, b, i + 1))

MMul(a, b) == MNorm(MMulAt(a, b, 1))

\* |a| \div k for 0 < k < Base, from limb i downwards with remainder r
RECURSIVE MDivSmallAt(_, _, _, _)
MDivSmallAt(a, k, i, r) ==
    IF i = 0 THEN <<>>
    ELSE LET cur == r * Base + a[i]
         IN  MDivSmallAt(a, k, i - 1, cur % k) \o <<cur \div k>>

MDivSmall(a, k) == MNorm(MDivSmallAt(a, k, Len(a), 0))

MShl(a, n) == MShiftLimbs(MMulSmall(a, 2^(n % LimbBits)), n \div LimbBits)

MShr(a, n) ==
    IF Len(a) <= n \div LimbBits THEN <<>>
    ELSE MDivSmall(SubSeq(a, (n \div LimbBits) + 1, Len(a)), 2^(n % LimbBits))

MPow2(n) == MShl(<<1>>, n)

\* the largest digit d < Base with |b| * d <= |r|, found bit by bit
RECURSIVE MDigit(_, _, _, _)
MDigit(r, b, bit, d) ==
    IF bit < 0 THEN d
    ELSE LET t == d + 2^bit
         IN  IF MCmp(MMulSmall(b, t), r) <= 0
             THEN MDigit(r, b, bit - 1, t)
             ELSE MDigit(r, b, bit - 1, d)

\* schoolbook long division of |a| by |b| # 0: <<quotient limbs, remainder>>
RECURSIVE MDivModAt(_, _, _, _)
MDivModAt(a, b, i, r) ==
    IF i = 0 THEN <<(<<>>), r>>
    ELSE LET cur  == MNorm(<<a[i]>> \o r)
             d    == MDigit(cur, b, LimbBits - 1, 0)
             rest == MDivModAt(a, b, i - 1, MSub(cur, MMulSmall(b, d)))
         IN  <<rest[1] \o <<d>>, rest[2]>>

MDivMod(a, b) ==
    LET qr == MDivModAt(a, b, Len(a), <<>>)
    IN  <<MNorm(qr[1]), qr[2]>>

Big(neg, mag) ==
    LET m == MNorm(mag)
    IN  [neg |-> (neg /\ m # <<>>), mag |-> m]

Zero == Big(FALSE, <<>>)

RECURSIVE MFromNat(_)
MFromNat(n) == IF n = 0 THEN <<>> ELSE <<n % Base>> \o MFromNat(n \div Base)

\* a 32-bit TLC integer as a Python int
I(n) == IF n < 0 THEN Big(TRUE, MFromNat(-n)) ELSE Big(FALSE, MFromNat(n))

RECURSIVE MToNat(_, _)
MToNat(m, i) == IF i > Len(m) THEN 0 ELSE m[i] + Base * MToNat(m, i + 1)

\* a Python int known to fit 32 bits, as a TLC integer
ToInt(x) == IF x.neg THEN -MToNat(x.mag, 1) ELSE MToNat(x.mag, 1)

IsZero(x) == x.mag = <<>>

Neg(x) == Big(~x.neg, x.mag)

\* Python's x + y
Add(x, y) ==
    IF x.neg = y.neg THEN Big(x.neg, MAdd(x.mag, y.mag))
    ELSE IF MCmp(x.mag, y.mag) >= 0 THEN Big(x.neg, MSub(x.mag, y.mag))
    ELSE Big(y.neg, MSub(y.mag, x.mag))

\* Python's x - y
Sub(x, y) == Add(x, Neg(y))

\* Python's x * y
Mul(x, y) == Big(x.neg # y.neg, MMul(x.mag, y.mag))

\* Python's x << n
Shl(x, n) == Big(x.neg, MShl(x.mag, n))

\* Python's x >> n: arithmetic, rounding towards minus infinity
Shr(x, n) ==
    IF ~x.neg THEN Big(FALSE, MShr(x.mag, n))
    ELSE Big(TRUE, MShr(MAdd(x.mag, MSub(MPow2(n), <<1>>)), n))

\* Python's x // y for y # 0: floor division
FloorDiv(x, y) ==
    LET qr == MDivMod(x.mag, y.mag)
    IN  IF x.neg = y.neg THEN Big(FALSE, qr[1])
        ELSE IF qr[2] = <<>> THEN Big(TRUE, qr[1])
        ELSE Big(TRUE, MAdd(qr[1], <<1>>))


(***************************************************************************)
(* Class constants of Bmp280.                                              *)
(***************************************************************************)
BMP280_CHIP_ID == 88
DEFAULT_ADDRESS == 119
MODE_SLEEP == 0
MODE_FORCED == 2
MODE_NORMAL == 3
REG_CHIP_ID == 208
REG_RESET == 224
REG_STATUS == 243
REG_CTRL_MEAS == 244
REG_PRESS_MSB == 247
REG_CALIB_BASE == 136
RESET_MAGIC == 182
BIT_UPDATING == 1
BIT_MEASURING == 8

Byte == 0..255

\* x & mask for a byte x and a one-bit mask
BitSet(x, mask) == (x \div mask) % 2 = 1

(***************************************************************************)
(* _initialize_chip, lines 97-107: the 12 calibration words of a block.    *)
(* Sequences are 1-based: Python's calibration_data[k] is block[k + 1].    *)
(***************************************************************************)
\* variant: the byte pair taken MSB first
SignedWordBigEndian(lsb, msb) ==
    LET sign == IF BitSet(lsb, 128) THEN 1 ELSE 0
    IN  ((lsb % 128) * 256 + msb) - (sign * 32768)

\* line 102-103: (((msb & 0x7f) << 8) | lsb) - sign * 32768
SignedWord(lsb, msb) ==
    LET sign == IF BitSet(msb, 128) THEN 1 ELSE 0
    IN  ((msb % 128) * 256 + lsb) - (sign * 32768)

\* lines 105-107: words 0 and 3 are made unsigned
UnsignedFix(word, v) ==
    IF word \in {0, 3} /\ v < 0 THEN v + 65536 ELSE v

ParseCalibration(block) ==
    [w \in 1..12 |->
        UnsignedFix(w - 1, SignedWord(block[2 * (w - 1) + 1], block[2 * (w - 1) + 2]))]

(***************************************************************************)
(* _compensate_temp, lines 119-125.  The result is the pair of the         *)
(* temperature in hundredths of a degree (the integer the code divides by  *)
(* 100) and t_fine.                                                        *)
(***************************************************************************)
TempVar1(adc_t, dig_t1, dig_t2) ==
    Shr(Mul(Sub(Shr(I(adc_t), 3), Shl(I(dig_t1), 1)), I(dig_t2)), 11)

TempVar2(adc_t, dig_t1, dig_t3) ==
    Shr(Mul(Mul(Sub(Shr(I(adc_t), 4), I(dig_t1)),
                Shr(Sub(Shr(I(adc_t), 4), I(dig_t1)), 12)),
            I(dig_t3)), 14)

compensate_temp(adc_t, dig_t1, dig_t2, dig_t3) ==
    LET t_fine == Add(TempVar1(adc_t, dig_t1, dig_t2), TempVar2(adc_t, dig_t1, dig_t3))
        temp   == Shr(Add(Mul(t_fine, I(5)), I(128)), 8)
    IN  <<ToInt(temp), ToInt(t_fine)>>

(***************************************************************************)
(* _compensate_pressure, lines 143-162.  PressDivisor is var1 of line 149; *)
(* the result is the integer p of line 160, which the code divides by      *)
(* 25600.0, or zero from the guard of lines 151-152.                       *)
(***************************************************************************)
PressDivisor(t_fine, dig_p1, dig_p2, dig_p3) ==
    LET var1 == Sub(I(t_fine), I(128000))
        v    == Add(Shr(Mul(Mul(var1, var1), I(dig_p3)), 8),
                    Shl(Mul(var1, I(dig_p2)), 12))
    IN  Shr(Mul(Add(Shl(I(1), 47), v), I(dig_p1)), 33)

PressVar2(t_fine, dig_p4, dig_p5, dig_p6) ==
    LET var1 == Sub(I(t_fine), I(128000))
    IN  Add(Add(Mul(Mul(var1, var1), I(dig_p6)),
                Shl(Mul(var1, I(dig_p5)), 17)),
            Shl(I(dig_p4), 35))

\* x >> n for any n >= 0, without building 2^n; nothing is shifted when n < 0
ShrBy(x, n) ==
    IF n < 0 THEN Zero
    ELSE IF n >= LimbBits * Len(x.mag) THEN (IF x.neg THEN I(-1) ELSE Zero)
    ELSE Shr(x, n)

\* variant: line 160 without its inner parentheses, the sum shifted by
\* 8 + (dig_p7 << 4)
PressScaledSumShift(adc_p, var1, var2, dig_p7, dig_p8, dig_p9) ==
    LET p0 == Sub(I(1048576), I(adc_p))
        p  == FloorDiv(Mul(Sub(Shl(p0, 31), var2), I(3125)), var1)
        w1 == Shr(Mul(Mul(I(dig_p9), Shr(p, 13)), Shr(p, 13)), 25)
        w2 == Shr(Mul(I(dig_p8), p), 19)
    IN  ShrBy(Add(Add(p, w1), w2), 8 + dig_p7 * 16)

PressScaled(adc_p, var1, var2, dig_p7, dig_p8, dig_p9) ==
    LET p0 == Sub(I(1048576), I(adc_p))
        p  == FloorDiv(Mul(Sub(Shl(p0, 31), var2), I(3125)), var1)
        w1 == Shr(Mul(Mul(I(dig_p9), Shr(p, 13)), Shr(p, 13)), 25)
        w2 == Shr(Mul(I(dig_p8), p), 19)
    IN  Add(Shr(Add(Add(p, w1), w2), 8), Shl(I(dig_p7), 4))

\* variant: the guard of lines 151-152 left out
compensate_pressure_NoGuard(adc_p, t_fine, dig_p1, dig_p2, dig_p3, dig_p4, dig_p5, dig_p6, dig_p7, dig_p8, dig_p9) ==
    PressScaled(adc_p, PressDivisor(t_fine, dig_p1, dig_p2, dig_p3),
                PressVar2(t_fine, dig_p4, dig_p5, dig_p6), dig_p7, dig_p8, dig_p9)

compensate_pressure(adc_p, t_fine, dig_p1, dig_p2, dig_p3, dig_p4, dig_p5, dig_p6, dig_p7, dig_p8, dig_p9) ==
    LET var1 == PressDivisor(t_fine, dig_p1, dig_p2, dig_p3)
        var2 == PressVar2(t_fine, dig_p4, dig_p5, dig_p6)
    IN  IF IsZero(var1) THEN Zero
        ELSE PressScaled(adc_p, var1, var2, dig_p7, dig_p8, dig_p9)

\* do_measure, lines 223-224: a raw 20-bit code from three data bytes
RawCode(msb, lsb, xlsb) == msb * 4096 + lsb * 16 + (xlsb \div 16)


\* Python's a | b on non-negative integers
RECURSIVE BitOr(_, _)
BitOr(a, b) ==
    IF a = 0 THEN b
    ELSE IF b = 0 THEN a
    ELSE (IF a % 2 = 1 \/ b % 2 = 1 THEN 1 ELSE 0) + 2 * BitOr(a \div 2, b \div 2)

(***************************************************************************)
(* What the bus can deliver.  Bytes are given in decimal.                  *)
(***************************************************************************)
\* dig_T1 = 27504, dig_T2 = 26435, dig_T3 = -1000, dig_P1 = 36477,
\* dig_P2 = -10685, dig_P3 = 3024, dig_P4 = 2855, dig_P5 = 140, dig_P6 = -7,
\* dig_P7 = 15500, dig_P8 = -14600, dig_P9 = 6000
DatasheetBlock ==
    <<112, 107, 67, 103, 24, 252, 125, 142, 67, 214, 208, 11, 39, 11,
      140, 0, 249, 255, 140, 60, 248, 198, 112, 23, 0, 0>>

\* the same with dig_P1 = 0
ZeroP1Block == [DatasheetBlock EXCEPT ![7] = 0, ![8] = 0]

\* dig_T2 = 32767, dig_P1 = 1, dig_P2 = -32768, every other word 0
SteepBlock ==
    <<0, 0, 255, 127, 0, 0, 1, 0, 0, 128, 0, 0, 0, 0,
      0, 0, 0, 0, 0, 0, 0, 0, 0, 0, 0, 0>>

BadByte24Block == [DatasheetBlock EXCEPT ![25] = 1]
BadByte25Block == [SteepBlock EXCEPT ![26] = 128]

CalBlocks == {DatasheetBlock, ZeroP1Block, SteepBlock, BadByte24Block, BadByte25Block}

ChipIds == {BMP280_CHIP_ID, 96}

\* pressure MSB, LSB, XLSB, temperature MSB, LSB, XLSB
DatasheetSample == <<101, 90, 192, 126, 237, 0>>  \* raw p 415148, raw t 519888
HotSample       == <<0, 62, 128, 143, 159, 128>>  \* raw p 1000,   raw t 588280
Samples == {DatasheetSample, HotSample}

\* arguments set_mode is called with
ModeArgs == {MODE_SLEEP, 1, MODE_FORCED, MODE_NORMAL}

\* the polling loops have no bound; the model lets a register read back as
\* busy at most MaxPolls times in one call
MaxPolls == 2
\* the number of do_measure calls
MaxMeasure == 2

VARIABLES
    calibration_data,    \* self.calibration_data, 12 words
    power_mode,          \* self.power_mode, the tracked mode
    oversampling_temp,   \* self.oversampling_temp
    oversampling_press,  \* self.oversampling_press
    temperature,         \* self.temperature, in hundredths of a degree
    pressure,            \* self.pressure, times 25600
    time,                \* self.time
    tempSrc,             \* history: the burst read self.temperature comes from
    pressSrc,            \* history: the burst read self.pressure comes from
    pc,                  \* where the driver is
    call,                \* the current (or last) call of a driver method
    log,                 \* the bus operations of that call, in order
    prev,                \* summary of the call before it
    now,                 \* the wall clock; also the number of do_measure calls
    devCtrl,             \* the chip's ctrl_meas register
    devUpdating,         \* the chip's status bit 0
    devMeasuring,        \* the chip's status bit 3
    devData,             \* the chip's six data registers
    calcIn,              \* the arguments of a formula evaluated on its own
    calcOut              \* and its result

fields == <<calibration_data, power_mode, oversampling_temp, oversampling_press,
            temperature, pressure, time, tempSrc, pressSrc>>
ctl    == <<pc, call, log, prev, now>>
dev    == <<devCtrl, devUpdating, devMeasuring, devData>>
calc   == <<calcIn, calcOut>>
vars   == <<fields, ctl, dev, calc>>

\* self.address
address == DEFAULT_ADDRESS

NoErr == [type |-> "none", msg |-> "", value |-> 0]

Snapshot ==
    [mode |-> power_mode, cal |-> calibration_data,
     meas |-> <<temperature, pressure, time>>, src |-> <<tempSrc, pressSrc>>,
     os |-> <<oversampling_temp, oversampling_press>>]

\* hist: every call since the constructor returned and was a set_mode, a
\* do_measure or a getter
CallRec(name, arg, ctor, status, err, hist) ==
    [name |-> name, arg |-> arg, ctor |-> ctor, status |-> status, err |-> err,
     pre |-> Snapshot, hist |-> hist]

NewCall(name, arg, ctor, status, err) ==
    CallRec(name, arg, ctor, status, err,
            call.hist /\ call.status = "ok" /\ name # "_initialize_chip")

\* one bus operation: the smbus2 method, its positional arguments, what it
\* returned (a sequence of bytes) and whether it returned at all
BusOp(fn, args, ret) == [fn |-> fn, args |-> args, ret |-> ret, ok |-> TRUE]
FailedOp(fn, args)   == [fn |-> fn, args |-> args, ret |-> <<>>, ok |-> FALSE]

IsWrite(op) == op.fn \in {"write_byte", "write_byte_data"}

RECURSIVE CountOps(_, _, _)
CountOps(l, fn, reg) ==
    IF l = <<>> THEN 0
    ELSE (IF Head(l).fn = fn /\ Head(l).args[2] = reg THEN 1 ELSE 0)
         + CountOps(Tail(l), fn, reg)

RECURSIVE Writes(_)
Writes(l) ==
    IF l = <<>> THEN 0 ELSE (IF IsWrite(Head(l)) THEN 1 ELSE 0) + Writes(Tail(l))

\* what is kept of a call once the next one has begun: of a set_mode its
\* argument, outcome, bus writes and the mode tracked before it
Summary ==
    IF call.name = "set_mode"
    THEN [name |-> call.name, arg |-> call.arg, status |-> call.status,
          writes |-> Writes(log), mode |-> call.pre.mode]
    ELSE [name |-> "other", arg |-> 0, status |-> "ok", writes |-> 0, mode |-> MODE_FORCED]

\* a method is entered: by the caller, or by __init__ for _initialize_chip
Begin(name, arg, ctor, status, err) ==
    /\ call' = NewCall(name, arg, ctor, status, err)
    /\ prev' = Summary
    /\ log' = <<>>

\* the method returns
Return ==
    /\ call' = [call EXCEPT !.status = "ok"]
    /\ pc' = "idle"

\* the method raises; out of __init__ this leaves no object behind
Raise(err) ==
    /\ call' = [call EXCEPT !.status = "raised", !.err = err]
    /\ pc' = IF call.ctor THEN "dead" ELSE "idle"

\* the registers as a bus read returns them
StatusByte ==
    (IF devUpdating THEN BIT_UPDATING ELSE 0) + (IF devMeasuring THEN BIT_MEASURING ELSE 0)


\* lines 181, 187, 202: (oversampling_temp << 5) | (oversampling_press << 2) | code
\* variant: the pressure factor shifted by 3
CtrlValueShift3(os_temp, os_press, code) == BitOr(BitOr(os_temp * 32, os_press * 8), code)

CtrlValue(os_temp, os_press, code) == BitOr(BitOr(os_temp * 32, os_press * 4), code)

CtrlMeas(code) == CtrlValue(oversampling_temp, oversampling_press, code)

NoCalc == [fn |-> "none", args |-> <<>>]

(***************************************************************************)
(* The state after the assignments of __init__ (lines 42-65), about to     *)
(* run _initialize_chip (line 67).  The chip is in whatever state the last *)
(* session or the power-on left it: asleep or in normal mode, possibly     *)
(* still copying its calibration memory.                                   *)
(***************************************************************************)
DriverInit ==
    /\ calibration_data = [w \in 1..12 |-> 0]
    /\ power_mode = MODE_FORCED
    /\ oversampling_temp = 1
    /\ oversampling_press = 1
    /\ temperature = 0
    /\ pressure = Zero
    /\ time = 0
    /\ tempSrc = 0
    /\ pressSrc = 0
    /\ pc = "init_reset"
    /\ call = CallRec("_initialize_chip", 0, TRUE, "running", NoErr, TRUE)
    /\ log = <<>>
    /\ prev = [name |-> "none", arg |-> 0, status |-> "ok", writes |-> 0,
               mode |-> MODE_FORCED]
    /\ now = 0

Init ==
    /\ DriverInit
    /\ devCtrl \in {0, 39}
    /\ devUpdating \in BOOLEAN
    /\ devMeasuring = FALSE
    /\ devData = <<128, 0, 0, 128, 0, 0>>
    /\ calcIn = NoCalc
    /\ calcOut = <<>>

(***************************************************************************)
(* _initialize_chip, lines 69-107.                                         *)
(***************************************************************************)
\* line 75.  smbus2's write_byte(i2c_addr, value, force) sends the single
\* byte `value` and takes its third argument as the force flag: the chip
\* receives 0xE0 alone, which changes none of its registers.
InitReset ==
    /\ pc = "init_reset"
    /\ log' = Append(log, BusOp("write_byte", <<address, REG_RESET, RESET_MAGIC>>, <<>>))
    /\ pc' = "init_wait"
    /\ UNCHANGED <<fields, call, prev, now, dev, calc>>

\* variant: the status register is read once and the loop left whatever it shows
InitPollOnce ==
    /\ pc = "init_wait"
    /\ log' = Append(log, BusOp("read_byte_data", <<address, REG_STATUS>>, <<StatusByte>>))
    /\ pc' = "init_id"
    /\ UNCHANGED <<fields, call, prev, now, dev, calc>>

\* lines 79-83
InitPoll ==
    /\ pc = "init_wait"
    /\ ~devUpdating \/ CountOps(log, "read_byte_data", REG_STATUS) < MaxPolls
    /\ log' = Append(log, BusOp("read_byte_data", <<address, REG_STATUS>>, <<StatusByte>>))
    /\ pc' = IF BitSet(StatusByte, BIT_UPDATING) THEN "init_wait" ELSE "init_id"
    /\ UNCHANGED <<fields, call, prev, now, dev, calc>>

\* variant: the chip id is read and not compared
InitChipIdUnchecked ==
    /\ pc = "init_id"
    /\ \E chip_id \in ChipIds :
        log' = Append(log, BusOp("read_byte_data", <<address, REG_CHIP_ID>>, <<chip_id>>))
    /\ pc' = "init_calib"
    /\ UNCHANGED <<fields, call, prev, now, dev, calc>>

\* lines 86-88
InitChipId ==
    /\ pc = "init_id"
    /\ \E chip_id \in ChipIds :
        /\ log' = Append(log, BusOp("read_byte_data", <<address, REG_CHIP_ID>>, <<chip_id>>))
        /\ IF chip_id # BMP280_CHIP_ID
           THEN Raise([type |-> "ValueError", msg |-> "chip_id", value |-> chip_id])
           ELSE pc' = "init_calib" /\ UNCHANGED call
    /\ UNCHANGED <<fields, prev, now, dev, calc>>

\* lines 92-95: the error the check bytes of a block raise, NoErr if none
CalibError(block) ==
    IF block[25] # 0
    THEN [type |-> "ValueError", msg |-> "calibration_byte_24", value |-> block[25]]
    ELSE IF block[26] # 0
    THEN [type |-> "ValueError", msg |-> "calibration_byte_25", value |-> block[26]]
    ELSE NoErr

\* variant: the words are stored before the check bytes are looked at
InitCalibCommitFirst ==
    /\ pc = "init_calib"
    /\ \E block \in CalBlocks :
        /\ log' = Append(log, BusOp("read_i2c_block_data",
                                    <<address, REG_CALIB_BASE, 26>>, block))
        /\ calibration_data' = ParseCalibration(block)
        /\ IF CalibError(block) # NoErr THEN Raise(CalibError(block)) ELSE Return
    /\ UNCHANGED <<power_mode, oversampling_temp, oversampling_press, temperature,
                   pressure, time, tempSrc, pressSrc, prev, now, dev, calc>>

\* lines 91-107
InitCalib ==
    /\ pc = "init_calib"
    /\ \E block \in CalBlocks :
        /\ log' = Append(log, BusOp("read_i2c_block_data",
                                    <<address, REG_CALIB_BASE, 26>>, block))
        /\ IF CalibError(block) # NoErr
           THEN /\ Raise(CalibError(block))
                /\ UNCHANGED calibration_data
           ELSE /\ calibration_data' = ParseCalibration(block)
                /\ Return
    /\ UNCHANGED <<power_mode, oversampling_temp, oversampling_press, temperature,
                   pressure, time, tempSrc, pressSrc, prev, now, dev, calc>>

\* _initialize_chip called again on a constructed driver
initialize_chip ==
    /\ pc = "idle"
    /\ Begin("_initialize_chip", 0, FALSE, "running", NoErr)
    /\ pc' = "init_reset"
    /\ UNCHANGED <<fields, now, dev, calc>>

(***************************************************************************)
(* set_mode, lines 164-192.                                                *)
(***************************************************************************)
\* variant: lines 175-176 left out, every accepted call writes
set_mode_NoEarlyReturn(mode) ==
    /\ pc = "idle"
    /\ IF mode \in {MODE_FORCED, MODE_NORMAL}
       THEN Begin("set_mode", mode, FALSE, "running", NoErr) /\ pc' = "mode_write"
       ELSE /\ Begin("set_mode", mode, FALSE, "raised",
                     [type |-> "ValueError", msg |-> "power_mode", value |-> mode])
            /\ pc' = "idle"
    /\ UNCHANGED <<fields, now, dev, calc>>

\* variant: MODE_SLEEP taken as a mode to write
set_mode_SleepAccepted(mode) ==
    /\ pc = "idle"
    /\ IF mode = power_mode
       THEN Begin("set_mode", mode, FALSE, "ok", NoErr) /\ pc' = "idle"
       ELSE IF mode \in {MODE_SLEEP, MODE_FORCED, MODE_NORMAL}
       THEN Begin("set_mode", mode, FALSE, "running", NoErr) /\ pc' = "mode_write"
       ELSE /\ Begin("set_mode", mode, FALSE, "raised",
                     [type |-> "ValueError", msg |-> "power_mode", value |-> mode])
            /\ pc' = "idle"
    /\ UNCHANGED <<fields, now, dev, calc>>

\* variant: line 192 moved before the bus write
set_mode_TracksFirst(mode) ==
    /\ pc = "idle"
    /\ IF mode = power_mode
       THEN Begin("set_mode", mode, FALSE, "ok", NoErr) /\ pc' = "idle"
       ELSE IF mode \in {MODE_FORCED, MODE_NORMAL}
       THEN Begin("set_mode", mode, FALSE, "running", NoErr) /\ pc' = "mode_write"
       ELSE /\ Begin("set_mode", mode, FALSE, "raised",
                     [type |-> "ValueError", msg |-> "power_mode", value |-> mode])
            /\ pc' = "idle"
    /\ power_mode' = IF mode \in {MODE_FORCED, MODE_NORMAL} THEN mode ELSE power_mode
    /\ UNCHANGED <<calibration_data, oversampling_temp, oversampling_press, temperature,
                   pressure, time, tempSrc, pressSrc, now, dev, calc>>

\* lines 175-190, up to the bus write
set_mode(mode) ==
    /\ pc = "idle"
    /\ IF mode = power_mode
       THEN Begin("set_mode", mode, FALSE, "ok", NoErr) /\ pc' = "idle"
       ELSE IF mode \in {MODE_FORCED, MODE_NORMAL}
       THEN Begin("set_mode", mode, FALSE, "running", NoErr) /\ pc' = "mode_write"
       ELSE /\ Begin("set_mode", mode, FALSE, "raised",
                     [type |-> "ValueError", msg |-> "power_mode", value |-> mode])
            /\ pc' = "idle"
    /\ UNCHANGED <<fields, now, dev, calc>>

\* lines 181-182 and 187-188, then line 192
SetModeWrite ==
    /\ pc = "mode_write"
    /\ LET meas == CtrlMeas(IF call.arg = MODE_FORCED THEN MODE_SLEEP ELSE MODE_NORMAL)
       IN  /\ log' = Append(log, BusOp("write_byte_data",
                                       <<address, REG_CTRL_MEAS, meas>>, <<>>))
           /\ devCtrl' = meas
    /\ power_mode' = call.arg
    /\ Return
    /\ UNCHANGED <<calibration_data, oversampling_temp, oversampling_press, temperature,
                   pressure, time, tempSrc, pressSrc, prev, now,
                   devUpdating, devMeasuring, devData, calc>>

(***************************************************************************)
(* do_measure, lines 194-228.                                              *)
(***************************************************************************)
\* variant: the trigger of lines 202-203 issued whatever the tracked mode
do_measure_AlwaysTrigger ==
    /\ pc = "idle"
    /\ now < MaxMeasure
    /\ now' = now + 1
    /\ Begin("do_measure", 0, FALSE, "running", NoErr)
    /\ pc' = "meas_trigger"
    /\ UNCHANGED <<fields, dev, calc>>

\* line 201; the clock has moved on since the last call
do_measure ==
    /\ pc = "idle"
    /\ now < MaxMeasure
    /\ now' = now + 1
    /\ Begin("do_measure", 0, FALSE, "running", NoErr)
    /\ pc' = IF power_mode = MODE_FORCED THEN "meas_trigger" ELSE "meas_status"
    /\ UNCHANGED <<fields, dev, calc>>

\* lines 202-203
MeasTrigger ==
    /\ pc = "meas_trigger"
    /\ LET meas == CtrlMeas(MODE_FORCED)
       IN  /\ log' = Append(log, BusOp("write_byte_data",
                                       <<address, REG_CTRL_MEAS, meas>>, <<>>))
           /\ devCtrl' = meas
    /\ pc' = "meas_ctrl"
    /\ UNCHANGED <<fields, call, prev, now, devUpdating, devMeasuring, devData, calc>>

\* variant: the control register is read once and the loop left whatever it shows
MeasCtrlPollOnce ==
    /\ pc = "meas_ctrl"
    /\ log' = Append(log, BusOp("read_byte_data", <<address, REG_CTRL_MEAS>>, <<devCtrl>>))
    /\ pc' = "meas_status"
    /\ UNCHANGED <<fields, call, prev, now, dev, calc>>

\* variant: the loop of lines 205-209 left on mode bits 11
MeasCtrlPollWaitsNormal ==
    /\ pc = "meas_ctrl"
    /\ devCtrl % 4 = 3 \/ CountOps(log, "read_byte_data", REG_CTRL_MEAS) < MaxPolls
    /\ log' = Append(log, BusOp("read_byte_data", <<address, REG_CTRL_MEAS>>, <<devCtrl>>))
    /\ pc' = IF devCtrl % 4 = 3 THEN "meas_status" ELSE "meas_ctrl"
    /\ UNCHANGED <<fields, call, prev, now, dev, calc>>

\* lines 205-209
MeasCtrlPoll ==
    /\ pc = "meas_ctrl"
    /\ devCtrl % 4 = 0 \/ CountOps(log, "read_byte_data", REG_CTRL_MEAS) < MaxPolls
    /\ log' = Append(log, BusOp("read_byte_data", <<address, REG_CTRL_MEAS>>, <<devCtrl>>))
    /\ pc' = IF devCtrl % 4 = 0 THEN "meas_status" ELSE "meas_ctrl"
    /\ UNCHANGED <<fields, call, prev, now, dev, calc>>

\* variant: the status register is read once and the loop left whatever it shows
MeasStatusPollOnce ==
    /\ pc = "meas_status"
    /\ log' = Append(log, BusOp("read_byte_data", <<address, REG_STATUS>>, <<StatusByte>>))
    /\ pc' = "meas_burst"
    /\ UNCHANGED <<fields, call, prev, now, dev, calc>>

\* lines 213-217
MeasStatusPoll ==
    /\ pc = "meas_status"
    /\ ~devMeasuring \/ CountOps(log, "read_byte_data", REG_STATUS) < MaxPolls
    /\ log' = Append(log, BusOp("read_byte_data", <<address, REG_STATUS>>, <<StatusByte>>))
    /\ pc' = IF BitSet(StatusByte, BIT_MEASURING) THEN "meas_status" ELSE "meas_burst"
    /\ UNCHANGED <<fields, call, prev, now, dev, calc>>

\* lines 223-227: what the six bytes and the calibration words compensate to,
\* <<temperature in hundredths, pressure times 25600>>
Compensated(data, cal) ==
    LET raw_pressure    == RawCode(data[1], data[2], data[3])
        raw_temperature == RawCode(data[4], data[5], data[6])
        t == compensate_temp(raw_temperature, cal[1], cal[2], cal[3])
    IN  <<t[1],
          compensate_pressure(raw_pressure, t[2], cal[4], cal[5], cal[6], cal[7],
                              cal[8], cal[9], cal[10], cal[11], cal[12])>>

\* variant: the raw temperature code kept in the first calibration word
MeasBurstKeepsRaw ==
    /\ pc = "meas_burst"
    /\ log' = Append(log, BusOp("read_i2c_block_data",
                                <<address, REG_PRESS_MSB, 6>>, devData))
    /\ LET m == Compensated(devData, calibration_data)
       IN  /\ temperature' = m[1]
           /\ pressure' = m[2]
    /\ calibration_data' =
          [calibration_data EXCEPT ![1] = RawCode(devData[4], devData[5], devData[6])]
    /\ time' = now
    /\ tempSrc' = now
    /\ pressSrc' = now
    /\ Return
    /\ UNCHANGED <<power_mode, oversampling_temp, oversampling_press,
                   prev, now, dev, calc>>

\* lines 220-228
MeasBurst ==
    /\ pc = "meas_burst"
    /\ log' = Append(log, BusOp("read_i2c_block_data",
                                <<address, REG_PRESS_MSB, 6>>, devData))
    /\ LET m == Compensated(devData, calibration_data)
       IN  /\ temperature' = m[1]
           /\ pressure' = m[2]
    /\ time' = now
    /\ tempSrc' = now
    /\ pressSrc' = now
    /\ Return
    /\ UNCHANGED <<calibration_data, power_mode, oversampling_temp, oversampling_press,
                   prev, now, dev, calc>>

(***************************************************************************)
(* get_temperature, get_pressure, get_time, lines 230-237: each returns a  *)
(* field and changes none.                                                 *)
(***************************************************************************)
Getters == {"get_temperature", "get_pressure", "get_time"}

getter(name) ==
    /\ pc = "idle"
    /\ Begin(name, 0, FALSE, "ok", NoErr)
    /\ pc' = "idle"
    /\ UNCHANGED <<fields, now, dev, calc>>

(***************************************************************************)
(* A bus operation that raises (OSError out of smbus2): the exception      *)
(* leaves the method at once.                                              *)
(***************************************************************************)
PendingOp ==
    CASE pc = "init_reset"   -> FailedOp("write_byte", <<address, REG_RESET, RESET_MAGIC>>)
      [] pc = "init_wait"    -> FailedOp("read_byte_data", <<address, REG_STATUS>>)
      [] pc = "init_id"      -> FailedOp("read_byte_data", <<address, REG_CHIP_ID>>)
      [] pc = "init_calib"   -> FailedOp("read_i2c_block_data", <<address, REG_CALIB_BASE, 26>>)
      [] pc = "mode_write"   ->
            FailedOp("write_byte_data",
                     <<address, REG_CTRL_MEAS,
                       CtrlMeas(IF call.arg = MODE_FORCED THEN MODE_SLEEP ELSE MODE_NORMAL)>>)
      [] pc = "meas_trigger" ->
            FailedOp("write_byte_data", <<address, REG_CTRL_MEAS, CtrlMeas(MODE_FORCED)>>)
      [] pc = "meas_ctrl"    -> FailedOp("read_byte_data", <<address, REG_CTRL_MEAS>>)
      [] pc = "meas_status"  -> FailedOp("read_byte_data", <<address, REG_STATUS>>)
      [] pc = "meas_burst"   -> FailedOp("read_i2c_block_data", <<address, REG_PRESS_MSB, 6>>)

BusPcs == {"init_reset", "init_wait", "init_id", "init_calib", "mode_write",
           "meas_trigger", "meas_ctrl", "meas_status", "meas_burst"}

\* variant: do_measure takes its timestamp (line 228) before the burst read
BusFaultAfterStamp ==
    /\ pc \in BusPcs
    /\ log' = Append(log, PendingOp)
    /\ Raise([type |-> "OSError", msg |-> "bus", value |-> 0])
    /\ time' = IF pc = "meas_burst" THEN now ELSE time
    /\ UNCHANGED <<calibration_data, power_mode, oversampling_temp, oversampling_press,
                   temperature, pressure, tempSrc, pressSrc, prev, now, dev, calc>>

BusFault ==
    /\ pc \in BusPcs
    /\ log' = Append(log, PendingOp)
    /\ Raise([type |-> "OSError", msg |-> "bus", value |-> 0])
    /\ UNCHANGED <<fields, prev, now, dev, calc>>

(***************************************************************************)
(* The chip, running on its own beside the driver: it finishes copying its *)
(* calibration memory, and converts once per forced trigger or over and    *)
(* over in normal mode.                                                    *)
(***************************************************************************)
DevUpdateDone ==
    /\ devUpdating
    /\ devUpdating' = FALSE
    /\ UNCHANGED <<fields, ctl, devCtrl, devMeasuring, devData, calc>>

DevConvStart ==
    /\ devCtrl % 4 # MODE_SLEEP
    /\ ~devMeasuring
    /\ ~devUpdating
    /\ devMeasuring' = TRUE
    /\ UNCHANGED <<fields, ctl, devCtrl, devUpdating, devData, calc>>

DevConvEnd ==
    /\ devMeasuring
    /\ devMeasuring' = FALSE
    /\ \E s \in Samples : devData' = s
    /\ devCtrl' = IF devCtrl % 4 = MODE_NORMAL THEN devCtrl ELSE devCtrl - (devCtrl % 4)
    /\ UNCHANGED <<fields, ctl, devUpdating, calc>>

Next ==
    \/ InitReset
    \/ InitPoll
    \/ InitChipId
    \/ InitCalib
    \/ initialize_chip
    \/ \E mode \in ModeArgs : set_mode(mode)
    \/ SetModeWrite
    \/ do_measure
    \/ MeasTrigger
    \/ MeasCtrlPoll
    \/ MeasStatusPoll
    \/ MeasBurst
    \/ \E name \in Getters : getter(name)
    \/ BusFault
    \/ DevUpdateDone
    \/ DevConvStart
    \/ DevConvEnd

Spec == Init /\ [][Next]_vars

(***************************************************************************)
(* The same with scheduling: a driver that is at a statement executes it   *)
(* (the polls come every millisecond, lines 81, 209, 217), the chip ends   *)
(* what it began, and a poll of the status register that is again and      *)
(* again offered a clear measuring bit sees it clear at some time.         *)
(***************************************************************************)
\* the statements of the driver up to the loop of lines 213-217; the driver
\* is at one of them at a time
DriverStep ==
    \/ InitReset
    \/ InitPoll
    \/ InitChipId
    \/ InitCalib
    \/ SetModeWrite
    \/ MeasTrigger
    \/ MeasCtrlPoll

\* lines 220-228 are executed, to their end or to an exception: the driver
\* leaves the burst read
BurstDone == pc = "meas_burst" /\ pc' = "idle"

\* the chip is updating, converting or ready to convert, one at a time
DevStep == DevUpdateDone \/ DevConvStart \/ DevConvEnd

Fairness ==
    /\ WF_vars(DriverStep)
    /\ WF_pc(BurstDone)
    /\ WF_vars(DevStep)
    /\ SF_vars(MeasStatusPoll /\ pc' = "meas_burst")

\* the calls the scheduling is about: a driver is constructed, initialized
\* again, and asked for modes and measurements
LiveNext ==
    \/ InitReset
    \/ InitPoll
    \/ InitChipId
    \/ InitCalib
    \/ initialize_chip
    \/ \E mode \in {MODE_FORCED, MODE_NORMAL} : set_mode(mode)
    \/ SetModeWrite
    \/ do_measure
    \/ MeasTrigger
    \/ MeasCtrlPoll
    \/ MeasStatusPoll
    \/ MeasBurst
    \/ BusFault
    \/ DevUpdateDone
    \/ DevConvStart
    \/ DevConvEnd

SpecLive == Init /\ [][LiveNext]_vars /\ Fairness


(***************************************************************************)
(* The formulae on their own: _compensate_temp and the calibration parse   *)
(* of _initialize_chip applied to arguments drawn from bounded sets.  The  *)
(* driver does not move in this specification.                             *)
(***************************************************************************)
RawCodes == {0, 519888, 524288, 588280, 1048575}
DigT1s   == {0, 27504, 65535}
DigT2s   == {-32768, 26435, 32767}
DigT3s   == {-32768, -1000, 0, 32767}

TempInputs ==
    {[fn |-> "compensate_temp", args |-> <<raw, t1, t2, t3>>] :
        raw \in RawCodes, t1 \in DigT1s, t2 \in DigT2s, t3 \in DigT3s}

EdgeBytes == {0, 1, 127, 128, 255}

\* a block of zeros but for one word, whose bytes are lsb, msb
OneWordBlock(word, lsb, msb) ==
    [i \in 1..26 |-> IF i = 2 * word + 1 THEN lsb
                     ELSE IF i = 2 * word + 2 THEN msb
                     ELSE 0]

ParseInputs ==
    {[fn |-> "parse", args |-> OneWordBlock(word, lsb, msb)] :
        word \in 0..11, lsb \in EdgeBytes, msb \in EdgeBytes}
    \cup {[fn |-> "parse", args |-> b] : b \in {c \in CalBlocks : CalibError(c) = NoErr}}

\* dig_P1..dig_P9: the datasheet's, the same with dig_P7 zero and negative,
\* with dig_P1 zero, and the ends of the ranges
DatasheetP == <<36477, -10685, 3024, 2855, 140, -7, 15500, -14600, 6000>>
PressCals ==
    {DatasheetP,
     [DatasheetP EXCEPT ![7] = 0],
     [DatasheetP EXCEPT ![7] = 1],
     [DatasheetP EXCEPT ![7] = -32768],
     [DatasheetP EXCEPT ![1] = 0],
     <<65535, 32767, 32767, -32768, -32768, 32767, 32767, 32767, -32768>>,
     <<1, -32768, -32768, 32767, 32767, -32768, 0, -32768, 32767>>}
AdcPs   == {0, 415148, 1048575}
TFines  == {0, 128422, 128488, 1176524}

PressInputs ==
    {[fn |-> "compensate_pressure", args |-> <<adc_p, t_fine>> \o cal] :
        adc_p \in AdcPs, t_fine \in TFines, cal \in PressCals}

CalcInit ==
    /\ DriverInit
    /\ devCtrl = 0
    /\ devUpdating = FALSE
    /\ devMeasuring = FALSE
    /\ devData = <<128, 0, 0, 128, 0, 0>>
    /\ calcIn \in TempInputs \cup ParseInputs \cup PressInputs
    /\ calcOut = <<>>

CalcTemp ==
    /\ calcIn.fn = "compensate_temp"
    /\ calcOut = <<>>
    /\ calcOut' = compensate_temp(calcIn.args[1], calcIn.args[2], calcIn.args[3],
                                  calcIn.args[4])
    /\ UNCHANGED <<fields, ctl, dev, calcIn>>

CalcParse ==
    /\ calcIn.fn = "parse"
    /\ calcOut = <<>>
    /\ calcOut' = ParseCalibration(calcIn.args)
    /\ UNCHANGED <<fields, ctl, dev, calcIn>>

\* the integer p of line 160, or 0 from line 152, as a one-element sequence
CalcPressure ==
    /\ calcIn.fn = "compensate_pressure"
    /\ calcOut = <<>>
    /\ LET a == calcIn.args
       IN  calcOut' = <<compensate_pressure(a[1], a[2], a[3], a[4], a[5], a[6], a[7],
                                            a[8], a[9], a[10], a[11])>>
    /\ UNCHANGED <<fields, ctl, dev, calcIn>>

CalcNext == CalcTemp \/ CalcParse \/ CalcPressure

SpecCalc == CalcInit /\ [][CalcNext]_vars

(***************************************************************************)
(* C1.  The temperature formula as the specification writes it: the        *)
(* squared difference is shifted right by 12 before it is multiplied by    *)
(* dig_T3.                                                                 *)
(***************************************************************************)
StatedTemp(raw, dig_T1, dig_T2, dig_T3) ==
    LET d        == Sub(Shr(I(raw), 4), I(dig_T1))
        var1     == Shr(Mul(Sub(Shr(I(raw), 3), Shl(I(dig_T1), 1)), I(dig_T2)), 11)
        var2     == Shr(Mul(Shr(Mul(d, d), 12), I(dig_T3)), 14)
        fineTemp == Add(var1, var2)
    IN  <<ToInt(Shr(Add(Mul(fineTemp, I(5)), I(128)), 8)), ToInt(fineTemp)>>

\* C1: for every raw code and calibration triple _compensate_temp returns the
\* stated fineTemp and hundredths of a degree, and the datasheet vector
\* (27504, 26435, -1000, raw 519888) gives fineTemp 128422 and 2508 hundredths
C1_TempAsStated ==
    (calcIn.fn = "compensate_temp" /\ calcOut # <<>>) =>
        /\ calcOut = StatedTemp(calcIn.args[1], calcIn.args[2], calcIn.args[3],
                                calcIn.args[4])
        /\ calcIn.args = <<519888, 27504, 26435, -1000>> => calcOut = <<2508, 128422>>

(***************************************************************************)
(* C8.  Re-encoding the parsed words as little-endian byte pairs.          *)
(***************************************************************************)
EncodeWords(words) ==
    [i \in 1..24 |->
        LET v == words[(i + 1) \div 2] % 65536
        IN  IF i % 2 = 1 THEN v % 256 ELSE v \div 256]

\* C8: a block with zero check bytes parses to words 0 and 3 in 0..65535 and
\* the other words in -32768..32767, and re-encoding the 12 words modulo 65536,
\* LSB then MSB, gives back the block's first 24 bytes
C8_ParseReversible ==
    (calcIn.fn = "parse" /\ calcOut # <<>>) =>
        /\ \A w \in 1..12 :
              IF w \in {1, 4} THEN calcOut[w] \in 0..65535
              ELSE calcOut[w] \in -32768..32767
        /\ EncodeWords(calcOut) = SubSeq(calcIn.args, 1, 24)

\* a parsed block with a word whose sign bit is set, in an unsigned and in a
\* signed position
C8_Witness ==
    /\ calcIn.fn = "parse"
    /\ calcOut # <<>>
    /\ calcOut[4] >= 32768
    /\ calcOut[5] < 0


(***************************************************************************)
(* Properties of the driver, under Spec.                                   *)
(***************************************************************************)
LastOp == log[Len(log)]

Accepted == {MODE_FORCED, MODE_NORMAL}

\* the last two calls were set_mode(m); set_mode(m) for an accepted m, and
\* both returned
TwiceSameMode ==
    /\ prev.name = "set_mode"
    /\ call.name = "set_mode"
    /\ prev.arg = call.arg
    /\ call.arg \in Accepted
    /\ prev.status = "ok"
    /\ call.status = "ok"

\* C2 as stated: set_mode(m); set_mode(m) writes the control register exactly
\* once, in the first call, from every reachable state
C2_ExactlyOneWrite ==
    TwiceSameMode => (prev.writes = 1 /\ Writes(log) = 0)

\* C2 amended: of two consecutive calls set_mode(m); set_mode(m) that both
\* return, the first writes once if m differs from the mode tracked before it
\* and not at all if m is that mode, and the second writes nothing
C2_AtMostOneWrite ==
    TwiceSameMode =>
        /\ prev.writes = (IF prev.arg = prev.mode THEN 0 ELSE 1)
        /\ Writes(log) = 0
        /\ power_mode = call.arg

C2_Witness ==
    /\ TwiceSameMode
    /\ prev.writes = 1
    /\ log = <<>>

\* C3: a bus operation that fails inside do_measure ends the call with that
\* error and leaves temperature, pressure and timestamp as they were before
\* the call; the three stored values always come from one burst read
C3_MeasurementAllOrNothing ==
    /\ (call.name = "do_measure" /\ \E i \in 1..Len(log) : ~log[i].ok) =>
          /\ call.status = "raised"
          /\ call.err.type = "OSError"
          /\ <<temperature, pressure, time>> = call.pre.meas
          /\ <<tempSrc, pressSrc>> = call.pre.src
    /\ tempSrc = pressSrc
    /\ pressSrc = time

\* the burst read fails when an earlier measurement is stored
C3_Witness ==
    /\ call.name = "do_measure"
    /\ call.status = "raised"
    /\ LastOp.fn = "read_i2c_block_data"
    /\ ~LastOp.ok
    /\ time >= 1
    /\ temperature # 0

\* C4 as stated: whenever _initialize_chip has completed, the tracked power
\* mode is FORCED, whatever it was before
C4_InitTracksForced ==
    (call.name = "_initialize_chip" /\ call.status = "ok") => power_mode = MODE_FORCED

\* C5 as stated: the first bus operation of the initialization is a
\* register-addressed byte write of 0xB6 to the reset register 0xE0
C5_ResetIsRegisterWrite ==
    (call.name = "_initialize_chip" /\ log # <<>>) =>
        /\ log[1].fn = "write_byte_data"
        /\ log[1].args = <<address, REG_RESET, RESET_MAGIC>>

IsChipIdRead(op) ==
    op.ok /\ op.fn = "read_byte_data" /\ op.args[2] = REG_CHIP_ID

\* C6: a chip id other than 0x58 makes the initialization fail with an error
\* carrying the byte read, no calibration block is read, and the calibration
\* words stay as before the call (all zero in the constructor)
C6_ChipIdMismatch ==
    \A i \in 1..Len(log) :
        (call.name = "_initialize_chip" /\ IsChipIdRead(log[i])
            /\ log[i].ret[1] # BMP280_CHIP_ID) =>
            /\ call.status = "raised"
            /\ call.err = [type |-> "ValueError", msg |-> "chip_id",
                           value |-> log[i].ret[1]]
            /\ CountOps(log, "read_i2c_block_data", REG_CALIB_BASE) = 0
            /\ calibration_data = call.pre.cal
            /\ call.ctor => calibration_data = [w \in 1..12 |-> 0]

\* a driver that holds calibration words is initialized again and reads a
\* foreign chip id
C6_Witness ==
    /\ call.name = "_initialize_chip"
    /\ ~call.ctor
    /\ call.status = "raised"
    /\ IsChipIdRead(LastOp)
    /\ LastOp.ret[1] # BMP280_CHIP_ID
    /\ calibration_data[1] # 0

IsCalibRead(op) ==
    op.ok /\ op.fn = "read_i2c_block_data" /\ op.args[2] = REG_CALIB_BASE

\* C7: a calibration block with a nonzero byte at offset 24 or 25 makes the
\* initialization fail, and none of the 12 calibration words is modified
C7_BadCheckBytes ==
    \A i \in 1..Len(log) :
        (call.name = "_initialize_chip" /\ IsCalibRead(log[i])
            /\ (log[i].ret[25] # 0 \/ log[i].ret[26] # 0)) =>
            /\ call.status = "raised"
            /\ call.err.type = "ValueError"
            /\ calibration_data = call.pre.cal

\* the rejected block holds other words than the driver does
C7_Witness ==
    /\ call.name = "_initialize_chip"
    /\ call.status = "raised"
    /\ IsCalibRead(LastOp)
    /\ LastOp.ret[25] = 0
    /\ LastOp.ret[26] # 0
    /\ calibration_data[1] # 0
    /\ ParseCalibration(LastOp.ret) # calibration_data

\* C9: set_mode with a value that is neither MODE_FORCED nor MODE_NORMAL and
\* differs from the tracked mode fails, writes nothing on the bus and leaves
\* the tracked mode as it was
C9_InvalidModeRejected ==
    (call.name = "set_mode" /\ call.arg \notin Accepted /\ call.arg # call.pre.mode) =>
        /\ call.status = "raised"
        /\ call.err = [type |-> "ValueError", msg |-> "power_mode", value |-> call.arg]
        /\ log = <<>>
        /\ power_mode = call.pre.mode
        /\ pc = "idle"

C9_Witness ==
    /\ call.name = "set_mode"
    /\ call.arg = MODE_SLEEP
    /\ call.status = "raised"
    /\ power_mode = MODE_NORMAL

\* the divisor of line 149 for a burst read under the calibration words
DivisorOf(data, cal) ==
    PressDivisor(compensate_temp(RawCode(data[4], data[5], data[6]),
                                 cal[1], cal[2], cal[3])[2],
                 cal[4], cal[5], cal[6])

IsBurstRead(op) ==
    op.ok /\ op.fn = "read_i2c_block_data" /\ op.args[2] = REG_PRESS_MSB

\* C10: when the divisor of the pressure compensation is zero, do_measure
\* returns, stores pressure 0, the temperature compensated from the same burst
\* read and a fresh timestamp
C10_ZeroDivisor ==
    (call.name = "do_measure" /\ log # <<>> /\ IsBurstRead(LastOp)
        /\ IsZero(DivisorOf(LastOp.ret, calibration_data))) =>
        /\ call.status = "ok"
        /\ pressure = Zero
        /\ temperature = compensate_temp(RawCode(LastOp.ret[4], LastOp.ret[5], LastOp.ret[6]),
                                         calibration_data[1], calibration_data[2],
                                         calibration_data[3])[1]
        /\ time = now
        /\ time > call.pre.meas[3]
        /\ tempSrc = now
        /\ pressSrc = now

\* the divisor is zero although dig_P1 is not
C10_Witness ==
    /\ call.name = "do_measure"
    /\ call.status = "ok"
    /\ IsBurstRead(LastOp)
    /\ IsZero(DivisorOf(LastOp.ret, calibration_data))
    /\ calibration_data[4] # 0
    /\ pressure = Zero
    /\ temperature = 22979


\* C11: a control-register write that fails inside set_mode ends the call with
\* that error and leaves the tracked mode as before the call, and the next
\* set_mode with the same argument issues the write again
C11_ModeTrackedAfterWrite ==
    /\ (call.name = "set_mode" /\ \E i \in 1..Len(log) : ~log[i].ok) =>
          /\ call.status = "raised"
          /\ call.err.type = "OSError"
          /\ power_mode = call.pre.mode
          /\ power_mode # call.arg
    /\ (call.name = "set_mode" /\ call.status = "ok" /\ log # <<>>) =>
          /\ LastOp.ok
          /\ power_mode = call.arg
    /\ (prev.name = "set_mode" /\ prev.status = "raised" /\ prev.writes = 1
            /\ call.name = "set_mode" /\ call.arg = prev.arg /\ pc = "idle") =>
          /\ Len(log) = 1
          /\ log[1].fn = "write_byte_data"
          /\ log[1].args[2] = REG_CTRL_MEAS

\* the write of set_mode(m) fails, and set_mode(m) called again succeeds
C11_Witness ==
    /\ prev.name = "set_mode"
    /\ prev.status = "raised"
    /\ prev.writes = 1
    /\ call.name = "set_mode"
    /\ call.arg = prev.arg
    /\ call.status = "ok"
    /\ power_mode = MODE_NORMAL

(***************************************************************************)
(* C12.  A do_measure that returned issued, in this order and nothing      *)
(* else: in FORCED tracked mode one control-register write with the FORCED *)
(* code and then one or more control-register reads of which only the last *)
(* shows mode bits 00; in both modes one or more status reads of which     *)
(* only the last shows bit 3 clear; and last one 6-byte block read at 0xF7.*)
(***************************************************************************)
IsCtrlWrite(op) == op.fn = "write_byte_data" /\ op.args[2] = REG_CTRL_MEAS

IsCtrlRead(op) == op.fn = "read_byte_data" /\ op.args[2] = REG_CTRL_MEAS

IsStatusRead(op) == op.fn = "read_byte_data" /\ op.args[2] = REG_STATUS

C12_MeasureOrder ==
    (call.name = "do_measure" /\ call.status = "ok") =>
        LET n == Len(log)
            forced == call.pre.mode = MODE_FORCED
        IN  /\ \A i \in 1..n : log[i].ok
            /\ n >= 2
            /\ log[n].fn = "read_i2c_block_data"
            /\ log[n].args = <<address, REG_PRESS_MSB, 6>>
            /\ Len(log[n].ret) = 6
            /\ \E k \in 0..(n - 2) :
                 \* k: the index of the last control-register read, 0 if none
                 /\ forced <=> k > 0
                 /\ forced =>
                      /\ k >= 2
                      /\ IsCtrlWrite(log[1])
                      /\ log[1].args[3] % 4 = MODE_FORCED
                      /\ \A i \in 2..k :
                           /\ IsCtrlRead(log[i])
                           /\ (log[i].ret[1] % 4 = 0) <=> (i = k)
                 /\ \A i \in (k + 1)..(n - 1) :
                      /\ IsStatusRead(log[i])
                      /\ ~BitSet(log[i].ret[1], BIT_MEASURING) <=> (i = n - 1)

C12_Witness ==
    /\ call.name = "do_measure" /\ call.status = "ok"
    /\ call.pre.mode = MODE_FORCED
    /\ CountOps(log, "read_byte_data", REG_CTRL_MEAS) >= 2
    /\ LastOp.fn = "read_i2c_block_data"

(***************************************************************************)
(* C13.  do_measure writes to the chip only in its trigger: no bus write   *)
(* when the tracked mode is NORMAL, one write, to the control register and *)
(* first of all, when it is FORCED; and it leaves the tracked mode, the    *)
(* oversampling factors and the calibration words as they were.            *)
(***************************************************************************)
C13_MeasureWritesOnlyTrigger ==
    call.name = "do_measure" =>
        /\ power_mode = call.pre.mode
        /\ <<oversampling_temp, oversampling_press>> = call.pre.os
        /\ calibration_data = call.pre.cal
        /\ \A i \in 1..Len(log) :
             IsWrite(log[i]) =>
                 i = 1 /\ IsCtrlWrite(log[i]) /\ call.pre.mode = MODE_FORCED
        /\ call.pre.mode = MODE_NORMAL => Writes(log) = 0
        /\ (call.pre.mode = MODE_FORCED /\ pc # "meas_trigger") => Writes(log) = 1

C13_Witness ==
    /\ call.name = "do_measure" /\ call.status = "ok"
    /\ call.pre.mode = MODE_NORMAL
    /\ Writes(log) = 0
    /\ tempSrc = now

(***************************************************************************)
(* C14.  In _initialize_chip the chip id is read only right after a status *)
(* read that showed bit 0 clear, the status reads follow the reset write,  *)
(* and the 26-byte block at 0x88 is read only right after the chip id read *)
(* as 0x58; an initialization that returned read the chip id once and the  *)
(* block once.                                                             *)
(***************************************************************************)
C14_InitOrder ==
    call.name = "_initialize_chip" =>
        /\ \A i \in 1..Len(log) :
             /\ (log[i].fn = "write_byte") <=> (i = 1)
             /\ (log[i].fn = "read_byte_data" /\ log[i].args[2] = REG_CHIP_ID) =>
                  /\ i >= 3
                  /\ \A j \in 2..(i - 1) : IsStatusRead(log[j]) /\ log[j].ok
                  /\ ~BitSet(log[i - 1].ret[1], BIT_UPDATING)
                  /\ \A j \in 2..(i - 2) : BitSet(log[j].ret[1], BIT_UPDATING)
             /\ log[i].fn = "read_i2c_block_data" =>
                  /\ i >= 4
                  /\ log[i].args = <<address, REG_CALIB_BASE, 26>>
                  /\ IsChipIdRead(log[i - 1]) /\ log[i - 1].ok
                  /\ log[i - 1].ret = <<BMP280_CHIP_ID>>
        /\ call.status = "ok" =>
             /\ CountOps(log, "read_byte_data", REG_CHIP_ID) = 1
             /\ CountOps(log, "read_i2c_block_data", REG_CALIB_BASE) = 1
             /\ CountOps(log, "read_byte_data", REG_STATUS) >= 1

C14_Witness ==
    /\ call.name = "_initialize_chip" /\ call.status = "ok"
    /\ CountOps(log, "read_byte_data", REG_STATUS) >= 2
    /\ IsCalibRead(LastOp)

(***************************************************************************)
(* C15.  Every value written to the control register is                    *)
(* oversampling_temp * 32 + oversampling_press * 4 + code, code being 0    *)
(* for set_mode(MODE_FORCED), 3 for set_mode(MODE_NORMAL) and 2 for the    *)
(* trigger of do_measure: 0x24, 0x27, 0x26 with the factors of __init__.   *)
(* For all factors in 0..7 the value is a byte whose low two bits are the  *)
(* code.                                                                   *)
(***************************************************************************)
WrittenCode ==
    IF call.name = "set_mode"
    THEN (IF call.arg = MODE_FORCED THEN 0 ELSE 3)
    ELSE 2

C15_CtrlValue ==
    \A i \in 1..Len(log) :
        IsCtrlWrite(log[i]) =>
            LET v == log[i].args[3]
            IN  /\ call.name \in {"set_mode", "do_measure"}
                /\ call.name = "set_mode" => call.arg \in Accepted
                /\ v = oversampling_temp * 32 + oversampling_press * 4 + WrittenCode
                /\ v = 36 + WrittenCode
                /\ v \in Byte /\ v % 4 = WrittenCode
                /\ i = Len(log) =>
                     \A ot \in 0..7, op \in 0..7 :
                         /\ CtrlValue(ot, op, WrittenCode) = ot * 32 + op * 4 + WrittenCode
                         /\ CtrlValue(ot, op, WrittenCode) \in Byte
                         /\ CtrlValue(ot, op, WrittenCode) % 4 = WrittenCode

C15_Witness ==
    /\ call.name = "set_mode" /\ call.arg = MODE_FORCED /\ call.status = "ok"
    /\ log # <<>> /\ IsCtrlWrite(LastOp) /\ LastOp.args[3] = 36
    /\ devCtrl = 36

(***************************************************************************)
(* C16.  The pressure steps as the specification writes them, read with    *)
(* the operator precedence its other formulae rely on, where a product or *)
(* a sum binds before a shift: the last step shifts by 8 + (dig_P7 << 4).  *)
(***************************************************************************)
StatedVar2(fineTemp, dig_P4, dig_P5, dig_P6) ==
    LET var1 == Sub(I(fineTemp), I(128000))
    IN  Add(Add(Mul(Mul(var1, var1), I(dig_P6)), Shl(Mul(var1, I(dig_P5)), 17)),
            Shl(I(dig_P4), 35))

StatedVar1(fineTemp, dig_P1, dig_P2, dig_P3) ==
    LET var1 == Sub(I(fineTemp), I(128000))
        v    == Add(Shr(Mul(Mul(var1, var1), I(dig_P3)), 8), Shl(Mul(var1, I(dig_P2)), 12))
    IN  Shr(Mul(Add(Shl(I(1), 47), v), I(dig_P1)), 33)

\* ((p<<31) - var2) * 3125 with p = 1048576 - raw
StatedNumerator(raw, var2) == Mul(Sub(Shl(Sub(I(1048576), I(raw)), 31), var2), I(3125))

\* p + var1 + var2 of the last step
StatedSum(p, dig_P8, dig_P9) ==
    LET var1 == Shr(Mul(Mul(I(dig_P9), Shr(p, 13)), Shr(p, 13)), 25)
        var2 == Shr(Mul(I(dig_P8), p), 19)
    IN  Add(Add(p, var1), var2)

\* the last step as written, p = (p + var1 + var2) >> 8 + (dig_P7 << 4)
StatedPressureAsWritten(a) ==
    LET p == FloorDiv(StatedNumerator(a[1], StatedVar2(a[2], a[6], a[7], a[8])),
                      StatedVar1(a[2], a[3], a[4], a[5]))
    IN  ShrBy(StatedSum(p, a[10], a[11]), 8 + a[9] * 16)

\* the last step with the shift applied before the addition,
\* p = ((p + var1 + var2) >> 8) + (dig_P7 << 4)
StatedPressure(a) ==
    LET p == FloorDiv(StatedNumerator(a[1], StatedVar2(a[2], a[6], a[7], a[8])),
                      StatedVar1(a[2], a[3], a[4], a[5]))
    IN  Add(Shr(StatedSum(p, a[10], a[11]), 8), Shl(I(a[9]), 4))

PressureComputed ==
    /\ calcIn.fn = "compensate_pressure"
    /\ calcOut # <<>>
    /\ ~IsZero(StatedVar1(calcIn.args[2], calcIn.args[3], calcIn.args[4], calcIn.args[5]))

\* q is the floor of n / d
IsFloorOf(q, n, d) ==
    LET r == Sub(n, Mul(q, d))
    IN  IF d.neg THEN (r.neg \/ IsZero(r)) /\ Sub(r, d).neg = FALSE /\ ~IsZero(Sub(r, d))
        ELSE ~r.neg /\ Sub(r, d).neg

\* C16 as stated: with a nonzero divisor the integer result of
\* _compensate_pressure equals the steps as written, last step
\* (p + var1 + var2) >> 8 + (dig_P7 << 4); taken for dig_P7 >= 0, where the
\* shift count is not negative
C16_PressureAsWritten ==
    (PressureComputed /\ calcIn.args[9] >= 0) =>
        calcOut = <<StatedPressureAsWritten(calcIn.args)>>

\* C16 amended: with a nonzero divisor the integer result of
\* _compensate_pressure equals the steps with the last one read as
\* ((p + var1 + var2) >> 8) + (dig_P7 << 4), the division being the floor
\* of the quotient
C16_PressureStated ==
    PressureComputed =>
        LET a == calcIn.args
            n == StatedNumerator(a[1], StatedVar2(a[2], a[6], a[7], a[8]))
            d == StatedVar1(a[2], a[3], a[4], a[5])
        IN  /\ calcOut = <<StatedPressure(a)>>
            /\ IsFloorOf(FloorDiv(n, d), n, d)

\* the datasheet's coefficients and raw pressure at fineTemp 128422
C16_Witness ==
    /\ calcIn.fn = "compensate_pressure"
    /\ calcIn.args = <<415148, 128422>> \o DatasheetP
    /\ calcOut = <<I(25767233)>>

(***************************************************************************)
(* C17.  No step of set_mode, do_measure or a getter, returning or         *)
(* raising, changes a calibration word: once the constructor has returned, *)
(* the words change only in a step of _initialize_chip.                    *)
(***************************************************************************)
C17_CalibrationReadOnly ==
    [][call'.name # "_initialize_chip" => calibration_data' = calibration_data]_vars

C17_Witness ==
    /\ call.name = "do_measure" /\ call.status = "ok"
    /\ prev.name = "set_mode" /\ prev.status = "raised"
    /\ calibration_data = ParseCalibration(DatasheetBlock)
    /\ temperature # 0

(***************************************************************************)
(* C18.  Under the scheduling of SpecLive every call of _initialize_chip   *)
(* and of do_measure comes to an end.  A call that is still in one of the  *)
(* three polling loops has not yet read the awaited bit value, so each     *)
(* loop is left on the first read that shows it; and no call gives up      *)
(* polling: the only errors are those of the bus and of the checks of      *)
(* lines 87-95.                                                            *)
(***************************************************************************)
Running == call.name \in {"_initialize_chip", "do_measure"} /\ call.status = "running"

NoAwaitedValueYet ==
    /\ pc = "init_wait" =>
         \A i \in 1..Len(log) :
             IsStatusRead(log[i]) => log[i].ok /\ BitSet(log[i].ret[1], BIT_UPDATING)
    /\ pc = "meas_ctrl" =>
         \A i \in 1..Len(log) :
             IsCtrlRead(log[i]) => log[i].ok /\ log[i].ret[1] % 4 # 0
    /\ pc = "meas_status" =>
         \A i \in 1..Len(log) :
             IsStatusRead(log[i]) => log[i].ok /\ BitSet(log[i].ret[1], BIT_MEASURING)

NoGivingUp ==
    (call.name \in {"_initialize_chip", "do_measure"} /\ call.status = "raised") =>
        \/ call.err.type = "OSError" /\ ~LastOp.ok
        \/ /\ call.name = "_initialize_chip" /\ call.err.type = "ValueError"
           /\ IsChipIdRead(LastOp) \/ IsCalibRead(LastOp)

C19_TrackedModeIsChipMode ==
    (pc = "idle" /\ call.hist /\ call.status = "ok") =>
        /\ power_mode \in Accepted
        /\ (power_mode = MODE_NORMAL) <=> (devCtrl % 4 = 3)
        /\ (power_mode = MODE_FORCED) <=> (devCtrl % 4 = 0)

(***************************************************************************)
(* C20.  The chip runs beside the driver.  As stated: when do_measure is   *)
(* about to issue its burst read the chip is not converting, whatever the  *)
(* tracked mode.                                                           *)
(***************************************************************************)
C20_NotConvertingAtBurst == pc = "meas_burst" => ~devMeasuring

\* C20 amended: when do_measure is about to issue its burst read, the bus
\* operation before it is a status read that showed the measuring bit clear;
\* in FORCED tracked mode the chip is asleep and not converting; in NORMAL
\* tracked mode it may have begun the next conversion since that read
C20_LastPollClearAtBurst ==
    pc = "meas_burst" =>
        /\ call.name = "do_measure" /\ call.status = "running"
        /\ log # <<>>
        /\ IsStatusRead(LastOp) /\ LastOp.ok
        /\ ~BitSet(LastOp.ret[1], BIT_MEASURING)
        /\ call.pre.mode = MODE_FORCED => ~devMeasuring /\ devCtrl % 4 = MODE_SLEEP
        /\ devMeasuring => call.pre.mode = MODE_NORMAL /\ devCtrl % 4 = MODE_NORMAL

C20_Witness ==
    /\ pc = "meas_burst"
    /\ call.pre.mode = MODE_NORMAL
    /\ devMeasuring
    /\ ~BitSet(LastOp.ret[1], BIT_MEASURING)


====
